---- MODULE Spec2Model ----
(***************************************************************************)
(* A model of simplenotes: the persistence adapter of src/src/js/db.js     *)
(* (IndexedDB with a localStorage fallback) and the note controller of     *)
(* src/src/js/app.js (in-memory list, selection, debounced save, delete).  *)
(*                                                                         *)
(* JavaScript strings are sequences of one-character strings, so that      *)
(* toString, toLowerCase, includes, JSON.stringify and JSON.parse are      *)
(* computed character by character.                                        *)
(***************************************************************************)
EXTENDS Integers, Sequences, FiniteSets

VARIABLES
  indexedDB,      \* window.indexedDB is truthy (the structured backend's API exists)
  idb,            \* object store 'notes' of SimpleNotesDB: records in key order
  localStorage,   \* the value under the key 'simpleNotes': Null or a JSON text
  clock,          \* the wall clock, in ms (Date.now())
  ready,          \* the listeners of app.js are registered (startup is over)
  alerted,        \* alert('Failed to initialize the app...') was shown
  notes,          \* app.js `notes`
  currentNoteId,  \* app.js `currentNoteId`
  debounceTimer,  \* app.js `debounceTimer`: <<>> or <<the handle of the timer set last>>
  timers,         \* the browser's live timers: the time each one is due
  noteTitleValue, \* noteTitle.value
  editorValue,    \* editor.value
  previewHTML,    \* preview.innerHTML
  searchValue,    \* searchInput.value
  displayed,      \* the <li> children of noteList: text and the note id of the closure
  pending,        \* async handlers suspended at an await, in completion order
  failures,       \* store operations that failed so far
  lastEdit,       \* history: <<>> or <<the last input event since a timer last fired>>
  last            \* history: the last step taken and what it acted on

vars == <<indexedDB, idb, localStorage, clock, ready, alerted, notes, currentNoteId,
          debounceTimer, timers, noteTitleValue, editorValue, previewHTML, searchValue,
          displayed,
          pending, failures, lastEdit, last>>

storeVars == <<indexedDB, idb, localStorage>>
timerVars == <<debounceTimer, timers>>
ctlVars == <<notes, currentNoteId, noteTitleValue, editorValue, previewHTML, displayed>>

----------------------------------------------------------------------------
(* Bounds of the model *)

MaxNotes == 2       \* notes in the list, those being created included
MaxTicks == 1       \* clock ticks in one run
TickMs == 1000      \* ms per clock tick
MaxPending == 1     \* handlers suspended at an await at one time
MaxFailures == 1    \* store operations that fail in one run
MaxFineTicks == 7   \* clock ticks in one run of the debounce specification
FineMs == 200       \* ms per clock tick of the debounce specification

(* Program constants *)

DebounceDelay == 1000       \* setTimeout(saveCurrentNote, 1000)

\* JavaScript null / undefined where a string is expected: a value that is no
\* string of characters
Null == <<"null">>

----------------------------------------------------------------------------
(* Strings *)

Untitled == <<"U", "n", "t", "i", "t", "l", "e", "d">>
EmptyStr == <<>>

Digits == <<"0", "1", "2", "3", "4", "5", "6", "7", "8", "9">>

\* Number.prototype.toString: the decimal digits of n
RECURSIVE ToString(_)
ToString(n) ==
  IF n < 10 THEN <<Digits[n + 1]>>
  ELSE ToString(n \div 10) \o <<Digits[(n % 10) + 1]>>

\* Date.prototype.toISOString, abstracted to the instant's ms count followed by
\* "Z" (the calendar fields are a bijective rendering of that count)
ToISOString(t) == ToString(t) \o <<"Z">>

\* a mutant of LowerChar: the character is kept as it is
LowerCharKeep(c) == c

\* String.prototype.toLowerCase over the letters the model's inputs use
LowerChar(c) ==
  CASE c = "A" -> "a"
    [] c = "B" -> "b"
    [] c = "U" -> "u"
    [] c = "X" -> "x"
    [] OTHER -> c

ToLowerCase(s) == [i \in 1..Len(s) |-> LowerChar(s[i])]

\* String.prototype.includes
Includes(s, sub) ==
  \E i \in 0..(Len(s) - Len(sub)) :
    \A j \in 1..Len(sub) : s[i + j] = sub[j]

\* the value of a digit character, for comparing keys
DigitValue(c) == CHOOSE d \in 0..9 : Digits[d + 1] = c

\* a < b for IndexedDB string keys (code-unit order), over digit strings
RECURSIVE KeyLess(_, _)
KeyLess(a, b) ==
  IF b = <<>> THEN FALSE
  ELSE IF a = <<>> THEN TRUE
  ELSE IF Head(a) = Head(b) THEN KeyLess(Tail(a), Tail(b))
  ELSE DigitValue(Head(a)) < DigitValue(Head(b))

----------------------------------------------------------------------------
(* Notes *)

Note(id, title, content, updatedAt) ==
  [id |-> id, title |-> title, content |-> content, updatedAt |-> updatedAt]

\* Array.prototype.findIndex, 1-based; 0 when there is none
FindIndex(s, Test(_)) ==
  IF \E i \in 1..Len(s) : Test(s[i])
  THEN CHOOSE i \in 1..Len(s) : Test(s[i]) /\ \A j \in 1..(i - 1) : ~Test(s[j])
  ELSE 0

Ids(s) == {s[i].id : i \in 1..Len(s)}

----------------------------------------------------------------------------
(* JSON, as far as db.js uses it: arrays of objects whose members are strings *)

Quote == "\""
Backslash == "\\"

\* the characters of a string literal's body: quote and backslash escaped
RECURSIVE EscapeChars(_)
EscapeChars(s) ==
  IF s = <<>> THEN <<>>
  ELSE (IF Head(s) = Quote \/ Head(s) = Backslash
        THEN <<Backslash, Head(s)>> ELSE <<Head(s)>>) \o EscapeChars(Tail(s))

StringifyString(s) == <<Quote>> \o EscapeChars(s) \o <<Quote>>

KeyId == <<"i", "d">>
KeyTitle == <<"t", "i", "t", "l", "e">>
KeyContent == <<"c", "o", "n", "t", "e", "n", "t">>
KeyUpdatedAt == <<"u", "p", "d", "a", "t", "e", "d", "A", "t">>

\* an object's members are written in property order: id, title, content, updatedAt
StringifyNote(n) ==
  <<"{">> \o StringifyString(KeyId) \o <<":">> \o StringifyString(n.id)
  \o <<",">> \o StringifyString(KeyTitle) \o <<":">> \o StringifyString(n.title)
  \o <<",">> \o StringifyString(KeyContent) \o <<":">> \o StringifyString(n.content)
  \o <<",">> \o StringifyString(KeyUpdatedAt) \o <<":">> \o StringifyString(n.updatedAt)
  \o <<"}">>

RECURSIVE StringifyElements(_)
StringifyElements(arr) ==
  IF arr = <<>> THEN <<>>
  ELSE IF Len(arr) = 1 THEN StringifyNote(arr[1])
  ELSE StringifyNote(arr[1]) \o <<",">> \o StringifyElements(Tail(arr))

\* JSON.stringify(notes)
JSONStringify(arr) == <<"[">> \o StringifyElements(arr) \o <<"]">>

\* a mutant of ReadString: an escape is copied, not decoded
RECURSIVE ReadStringRaw(_, _, _)
ReadStringRaw(t, i, acc) ==
  IF t[i] = Quote THEN [val |-> acc, next |-> i + 1]
  ELSE IF t[i] = Backslash
       THEN ReadStringRaw(t, i + 2, Append(Append(acc, Backslash), t[i + 1]))
  ELSE ReadStringRaw(t, i + 1, Append(acc, t[i]))

\* reads a string literal's body from position i (after the opening quote);
\* the result's `next` is the position after the closing quote
RECURSIVE ReadString(_, _, _)
ReadString(t, i, acc) ==
  IF t[i] = Quote THEN [val |-> acc, next |-> i + 1]
  ELSE IF t[i] = Backslash THEN ReadString(t, i + 2, Append(acc, t[i + 1]))
  ELSE ReadString(t, i + 1, Append(acc, t[i]))

\* obj[key] = val
SetMember(obj, key, val) ==
  CASE key = KeyId -> [obj EXCEPT !.id = val]
    [] key = KeyTitle -> [obj EXCEPT !.title = val]
    [] key = KeyContent -> [obj EXCEPT !.content = val]
    [] key = KeyUpdatedAt -> [obj EXCEPT !.updatedAt = val]
    [] OTHER -> obj

\* reads  "key":"value"  members from position i up to the closing brace
RECURSIVE ReadMembers(_, _, _)
ReadMembers(t, i, obj) ==
  LET k == ReadString(t, i + 1, <<>>)
      v == ReadString(t, k.next + 2, <<>>)
      o == SetMember(obj, k.val, v.val)
  IN IF t[v.next] = "," THEN ReadMembers(t, v.next + 1, o)
     ELSE [val |-> o, next |-> v.next + 1]

\* reads objects from position i up to the closing bracket
RECURSIVE ReadElements(_, _, _)
ReadElements(t, i, arr) ==
  IF t[i] = "]" THEN arr
  ELSE LET o == ReadMembers(t, i + 1, Note(Null, Null, Null, Null))
       IN IF t[o.next] = "," THEN ReadElements(t, o.next + 1, Append(arr, o.val))
          ELSE Append(arr, o.val)

\* JSON.parse(text)
JSONParse(t) == ReadElements(t, 2, <<>>)

EmptyArrayText == <<"[", "]">>

\* localStorage.getItem('simpleNotes') || '[]'
GetItemOrEmpty(ls) == IF ls = Null \/ ls = <<>> THEN EmptyArrayText ELSE ls

----------------------------------------------------------------------------
(* db.js: the fallback branch (localStorage) of each operation *)

\* a mutant of SaveNoteFallback: merges the new title into the stored record
SaveNoteFallbackMerge(ls, note) ==
  LET arr == JSONParse(GetItemOrEmpty(ls))
      existingIndex == FindIndex(arr, LAMBDA n : n.id = note.id)
  IN JSONStringify(IF existingIndex >= 1
                   THEN [arr EXCEPT ![existingIndex].title = note.title]
                   ELSE Append(arr, note))

SaveNoteFallback(ls, note) ==
  LET arr == JSONParse(GetItemOrEmpty(ls))
      existingIndex == FindIndex(arr, LAMBDA n : n.id = note.id)
  IN JSONStringify(IF existingIndex >= 1
                   THEN [arr EXCEPT ![existingIndex] = note]
                   ELSE Append(arr, note))

GetNotesFallback(ls) == JSONParse(GetItemOrEmpty(ls))

\* a mutant of DeleteNoteFallback: drops the last record when the id is not stored
DeleteNoteFallbackPop(ls, id) ==
  LET arr == JSONParse(GetItemOrEmpty(ls))
  IN JSONStringify(IF \E i \in 1..Len(arr) : arr[i].id = id
                   THEN SelectSeq(arr, LAMBDA n : n.id # id)
                   ELSE SubSeq(arr, 1, Len(arr) - 1))

DeleteNoteFallback(ls, id) ==
  JSONStringify(SelectSeq(JSONParse(GetItemOrEmpty(ls)), LAMBDA n : n.id # id))

----------------------------------------------------------------------------
(* db.js: the IndexedDB branch. The object store has keyPath 'id'; it holds  *)
(* one record per key, and getAll returns them in key order.                 *)

\* store.put(note)
StorePut(db, note) ==
  IF \E i \in 1..Len(db) : db[i].id = note.id
  THEN [i \in 1..Len(db) |-> IF db[i].id = note.id THEN note ELSE db[i]]
  ELSE LET before == SelectSeq(db, LAMBDA n : KeyLess(n.id, note.id))
           after == SelectSeq(db, LAMBDA n : KeyLess(note.id, n.id))
       IN before \o <<note>> \o after

\* store.getAll(): request.result || []
StoreGetAll(db) == db

\* store.delete(id)
StoreDelete(db, id) == SelectSeq(db, LAMBDA n : n.id # id)

----------------------------------------------------------------------------
(* renderPreview's markdown rules: String.prototype.replace with a global     *)
(* regular expression, over strings whose only line terminator is the newline *)

Newline == "\n"

H1Open == <<"<", "h", "1", ">">>
H1Close == <<"<", "/", "h", "1", ">">>
H2Open == <<"<", "h", "2", ">">>
H2Close == <<"<", "/", "h", "2", ">">>
StrongOpen == <<"<", "s", "t", "r", "o", "n", "g", ">">>
StrongClose == <<"<", "/", "s", "t", "r", "o", "n", "g", ">">>
EmOpen == <<"<", "e", "m", ">">>
EmClose == <<"<", "/", "e", "m", ">">>
AHrefOpen == <<"<", "a", " ", "h", "r", "e", "f", "=", "\"">>
AHrefClose == <<"\"", ">">>
AClose == <<"<", "/", "a", ">">>

\* the string d occurs in s at position i
StartsWith(s, i, d) ==
  /\ i + Len(d) - 1 <= Len(s)
  /\ \A j \in 1..Len(d) : s[i + j - 1] = d[j]

\* the position of the first newline at or after i, Len(s) + 1 when there is none
LineEnd(s, i) ==
  IF \E e \in i..Len(s) : s[e] = Newline
  THEN CHOOSE e \in i..Len(s) : s[e] = Newline /\ \A j \in i..(e - 1) : s[j] # Newline
  ELSE Len(s) + 1

\* the lazy `(.*?)` followed by the literal d, from position i: the first
\* position on i's line where d occurs, 0 when there is none
FindOnLine(s, i, d) ==
  LET e == LineEnd(s, i)
      at == {j \in i..e : StartsWith(s, j, d) /\ j + Len(d) - 1 < e}
  IN IF at = {} THEN 0 ELSE CHOOSE j \in at : \A k \in at : j <= k

\* replace(/^marker(.*$)/gm, open + '$1' + close), from position i
RECURSIVE ReplaceHeading(_, _, _, _, _)
ReplaceHeading(s, i, marker, open, close) ==
  IF i > Len(s) THEN <<>>
  ELSE IF (i = 1 \/ s[i - 1] = Newline) /\ StartsWith(s, i, marker)
       THEN LET e == LineEnd(s, i)
            IN open \o SubSeq(s, i + Len(marker), e - 1) \o close
               \o ReplaceHeading(s, e, marker, open, close)
       ELSE <<s[i]>> \o ReplaceHeading(s, i + 1, marker, open, close)

\* replace(/d(.*?)d/g, open + '$1' + close), from position i
RECURSIVE ReplaceDelimited(_, _, _, _, _)
ReplaceDelimited(s, i, d, open, close) ==
  IF i > Len(s) THEN <<>>
  ELSE LET j == IF StartsWith(s, i, d) THEN FindOnLine(s, i + Len(d), d) ELSE 0
       IN IF j # 0
          THEN open \o SubSeq(s, i + Len(d), j - 1) \o close
               \o ReplaceDelimited(s, j + Len(d), d, open, close)
          ELSE <<s[i]>> \o ReplaceDelimited(s, i + 1, d, open, close)

\* replace(/\[(.*?)\]\((.*?)\)/g, '<a href="$2">$1</a>'), from position i
RECURSIVE ReplaceLink(_, _)
ReplaceLink(s, i) ==
  IF i > Len(s) THEN <<>>
  ELSE LET j == IF s[i] = "[" THEN FindOnLine(s, i + 1, <<"]", "(">>) ELSE 0
           k == IF j # 0 THEN FindOnLine(s, j + 2, <<")">>) ELSE 0
       IN IF k # 0
          THEN AHrefOpen \o SubSeq(s, j + 2, k - 1) \o AHrefClose
               \o SubSeq(s, i + 1, j - 1) \o AClose \o ReplaceLink(s, k + 1)
          ELSE <<s[i]>> \o ReplaceLink(s, i + 1)

H1(s) == ReplaceHeading(s, 1, <<"#", " ">>, H1Open, H1Close)
H2(s) == ReplaceHeading(s, 1, <<"#", "#", " ">>, H2Open, H2Close)
Bold(s) == ReplaceDelimited(s, 1, <<"*", "*">>, StrongOpen, StrongClose)
Italic(s) == ReplaceDelimited(s, 1, <<"*">>, EmOpen, EmClose)
Link(s) == ReplaceLink(s, 1)

\* a mutant of RenderPreview: the italic rule runs before the bold rule
RenderPreviewItalicFirst(content) == Link(Bold(Italic(H2(H1(content)))))

\* renderPreview: the html assigned to preview.innerHTML
RenderPreview(content) == Link(Italic(Bold(H2(H1(content)))))

----------------------------------------------------------------------------
(* app.js: the list and the selection *)

\* li.textContent = note.title || 'Untitled'
EntryText(note) == IF note.title = EmptyStr THEN Untitled ELSE note.title

\* renderNoteList(filter): one <li> per note that passes the filter, in list
\* order; each carries its text and, in its click closure, the note's id
RenderNoteList(ns, filter) ==
  LET filtered == IF filter # EmptyStr
                  THEN SelectSeq(ns, LAMBDA note :
                         \/ Includes(ToLowerCase(note.title), filter)
                         \/ Includes(ToLowerCase(note.content), filter))
                  ELSE ns
  IN [i \in 1..Len(filtered) |-> [text |-> EntryText(filtered[i]), id |-> filtered[i].id]]

\* the part of the controller's state that openNote reads and writes
\* (`rendered`: openNote has run and with it renderPreview())
View == [cur |-> currentNoteId, title |-> noteTitleValue, content |-> editorValue,
         rendered |-> FALSE, shown |-> displayed]

SetView(v) ==
  /\ currentNoteId' = v.cur
  /\ noteTitleValue' = v.title
  /\ editorValue' = v.content
  /\ previewHTML' = IF v.rendered THEN RenderPreview(v.content) ELSE previewHTML
  /\ displayed' = v.shown

\* openNote(id) on the list ns: nothing when no note has the id
OpenNote(ns, id, v) ==
  LET idx == FindIndex(ns, LAMBDA n : n.id = id)
  IN IF idx = 0 THEN v
     ELSE [cur |-> id, title |-> ns[idx].title, content |-> ns[idx].content,
           rendered |-> TRUE,
           shown |-> RenderNoteList(ns, EmptyStr)]

\* notes.find(n => n.title === e.target.textContent)?.id
FindByTitle(ns, text) ==
  LET idx == FindIndex(ns, LAMBDA n : n.title = text)
  IN IF idx = 0 THEN Null ELSE ns[idx].id

\* notes.map(n => n.id === currentNoteId ? note : n)
ReplaceCurrent(ns, cur, note) ==
  [i \in 1..Len(ns) |-> IF ns[i].id = cur THEN note ELSE ns[i]]

----------------------------------------------------------------------------
(* Suspended handlers. An entry is an async function waiting at its await of *)
(* a db.js promise; `settled` is "pending" while an IndexedDB request is in  *)
(* flight, and "resolved" or "rejected" once the promise is settled and the  *)
(* continuation waits in the microtask queue (the fallback settles at once). *)

NoNote == Note(Null, Null, Null, Null)

Entry(kind, note, id, origin, shownId) ==
  [kind |-> kind, note |-> note, id |-> id, origin |-> origin, shownId |-> shownId,
   settled |-> "pending"]

\* history: the step just taken: the note id it acted on, whether its promise
\* resolved, for a delete the id of the note the clicked entry displays and the
\* selection before the step, for a create the caller, for a db.js call the note
\* passed and the stored notes before the call, for a timer's firing the record
\* written and the last edit before it
Step(op, id, ok, shownId) ==
  [op |-> op, id |-> id, ok |-> ok, shownId |-> shownId, cur |-> Null, origin |-> Null,
   note |-> NoNote, was |-> <<>>]

\* history: a task that awaits nothing
Task == Step("task", Null, TRUE, Null)

\* history: an edit burst is interrupted when something other than an input
\* event changes the fields or the selection
Interrupt(le, v) ==
  IF le = <<>> \/ (v.cur = currentNoteId /\ v.title = noteTitleValue
                   /\ v.content = editorValue)
  THEN le
  ELSE <<[le[1] EXCEPT !.title = Null, !.content = Null, !.listed = FALSE,
                        !.clean = FALSE]>>

\* history: an input event at time now that leaves the fields at title and
\* content; `first` is the time of the first edit of the burst it belongs to
\* and `listed` tells whether the open note was in the list at the event
Edit(le, now, title, content) ==
  <<[at |-> now, first |-> IF le = <<>> THEN now ELSE le[1].first,
     listed |-> currentNoteId \in Ids(notes),
     title |-> title, content |-> content, clean |-> TRUE]>>

\* what getNotes() resolves with
StoredNotes == IF indexedDB THEN StoreGetAll(idb) ELSE GetNotesFallback(localStorage)

\* saveNote(e.note), up to the promise it returns. With IndexedDB the request
\* is only issued; the fallback writes localStorage before it returns, or
\* throws when setItem exceeds the quota.
CallSaveNote(q, e, f) ==
  IF indexedDB
  THEN /\ pending' = Append(q, e)
       /\ failures' = f
       /\ localStorage' = localStorage
  ELSE \/ /\ localStorage' = SaveNoteFallback(localStorage, e.note)
          /\ pending' = Append(q, [e EXCEPT !.settled = "resolved"])
          /\ failures' = f
       \/ /\ f < MaxFailures
          /\ localStorage' = localStorage
          /\ pending' = Append(q, [e EXCEPT !.settled = "rejected"])
          /\ failures' = f + 1

\* deleteNote(e.id), up to the promise it returns
CallDeleteNote(q, e) ==
  IF indexedDB
  THEN /\ pending' = Append(q, e)
       /\ localStorage' = localStorage
  ELSE /\ localStorage' = DeleteNoteFallback(localStorage, e.id)
       /\ pending' = Append(q, [e EXCEPT !.settled = "resolved"])

\* getNotes() and initDB(), up to the promise: the fallback resolves at once
CallRead(q, e) ==
  pending' = Append(q, IF indexedDB THEN e ELSE [e EXCEPT !.settled = "resolved"])

\* createNewNote(), up to its await
CreateNewNote(q, origin, f) ==
  CallSaveNote(q, Entry("create",
                        Note(ToString(clock), Untitled, EmptyStr, ToISOString(clock)),
                        Null, origin, Null), f)

\* the record saveCurrentNote builds
CurrentRecord == Note(currentNoteId, noteTitleValue, editorValue, ToISOString(clock))

\* a mutant of SaveCurrentNote: the write is issued whatever the selection
SaveCurrentNoteUnguarded(q, f) ==
  CallSaveNote(q, Entry("save", CurrentRecord, Null, "save", Null), f)

\* saveCurrentNote(), up to its await: returns at once when no note is open
SaveCurrentNote(q, f) ==
  IF currentNoteId = Null
  THEN /\ pending' = q
       /\ failures' = f
       /\ localStorage' = localStorage
  ELSE CallSaveNote(q, Entry("save", CurrentRecord, Null, "save", Null), f)

\* the head of the queue settles with outcome ok
Settles(e, ok) ==
  IF e.settled = "pending" THEN ok \/ failures < MaxFailures
  ELSE ok = (e.settled = "resolved")

FailuresAfter(e, ok) ==
  IF e.settled = "pending" /\ ~ok THEN failures + 1 ELSE failures

----------------------------------------------------------------------------
(* Inputs *)

TitleInputs == {EmptyStr}
ContentInputs == {<<"a", Quote>>}
SearchInputs == {EmptyStr, <<"A">>}

\* a note left in the store by an earlier session
PriorNote == Note(ToString(0), <<"A">>, <<"a", Quote>>, ToISOString(0))
PriorStores == {<<>>, <<PriorNote>>}

----------------------------------------------------------------------------
(* The state after the DOMContentLoaded handler has run up to `await initDB()` *)

Init ==
  /\ indexedDB \in BOOLEAN
  /\ \E prior \in PriorStores :
       /\ idb = IF indexedDB THEN prior ELSE <<>>
       /\ localStorage = IF indexedDB \/ prior = <<>> THEN Null ELSE JSONStringify(prior)
  /\ clock = TickMs
  /\ ready = FALSE
  /\ alerted = FALSE
  /\ notes = <<>>
  /\ currentNoteId = Null
  /\ debounceTimer = <<>>
  /\ timers = <<>>
  /\ noteTitleValue = EmptyStr
  /\ editorValue = EmptyStr
  /\ previewHTML = EmptyStr
  /\ searchValue = EmptyStr
  /\ displayed = <<>>
  /\ pending = <<[Entry("initDB", NoNote, Null, "load", Null)
                  EXCEPT !.settled = IF indexedDB THEN "pending" ELSE "resolved"]>>
  /\ failures = 0
  /\ lastEdit = <<>>
  /\ last = Step("start", Null, TRUE, Null)

----------------------------------------------------------------------------
(* Startup: initDB, then loadNotes. The listeners are registered after both. *)

\* initDB settles: resolved -> loadNotes() calls getNotes(); rejected -> the
\* catch block alerts, and the rest of the handler registers the listeners
InitDBDone ==
  /\ pending # <<>> /\ Head(pending).kind = "initDB"
  /\ \E ok \in BOOLEAN :
       /\ Settles(Head(pending), ok)
       /\ failures' = FailuresAfter(Head(pending), ok)
       /\ IF ok
          THEN /\ CallRead(Tail(pending), Entry("getNotes", NoNote, Null, "load", Null))
               /\ UNCHANGED <<ready, alerted>>
          ELSE /\ pending' = Tail(pending)
               /\ alerted' = TRUE
               /\ ready' = TRUE
       /\ last' = Step("initDB", Null, ok, Null)
  /\ UNCHANGED <<storeVars, clock, ctlVars, timerVars, searchValue, lastEdit>>

\* getNotes settles inside loadNotes: the list is loaded and rendered, then the
\* first note is opened or, with none, the first note is created; a rejection
\* is logged by loadNotes' catch
GetNotesDone ==
  /\ pending # <<>> /\ Head(pending).kind = "getNotes"
  /\ \E ok \in BOOLEAN :
       /\ Settles(Head(pending), ok)
       /\ IF ok
          THEN LET ns == StoredNotes
                   v0 == [View EXCEPT !.shown = RenderNoteList(ns, EmptyStr)]
               IN /\ notes' = ns
                  /\ IF Len(ns) > 0
                     THEN /\ SetView(OpenNote(ns, ns[1].id, v0))
                          /\ pending' = Tail(pending)
                          /\ failures' = failures
                          /\ localStorage' = localStorage
                          /\ ready' = TRUE
                     ELSE /\ SetView(v0)
                          /\ CreateNewNote(Tail(pending), "load", failures)
                          /\ ready' = ready
          ELSE /\ pending' = Tail(pending)
               /\ failures' = FailuresAfter(Head(pending), ok)
               /\ ready' = TRUE
               /\ UNCHANGED <<ctlVars, localStorage>>
       /\ last' = Step("getNotes", Null, ok, Null)
  /\ UNCHANGED <<indexedDB, idb, clock, alerted, timerVars, searchValue, lastEdit>>

----------------------------------------------------------------------------
(* Continuations of the handlers *)

\* createNewNote after `await saveNote(newNote)`: notes.unshift(newNote);
\* openNote(newNote.id)
CreateContinuation(ns, note, v) ==
  LET ns2 == <<note>> \o ns
  IN [notes |-> ns2, view |-> OpenNote(ns2, note.id, v)]

\* a mutant of CreateDone: the note is added and opened whether or not the
\* write succeeded
CreateDoneOptimistic ==
  /\ pending # <<>> /\ Head(pending).kind = "create"
  /\ LET e == Head(pending) IN
     \E ok \in BOOLEAN :
       /\ Settles(e, ok)
       /\ failures' = FailuresAfter(e, ok)
       /\ LET r == CreateContinuation(notes, e.note, View)
          IN /\ idb' = IF ok /\ indexedDB THEN StorePut(idb, e.note) ELSE idb
             /\ notes' = r.notes
             /\ SetView(IF e.origin = "delete"
                        THEN [r.view EXCEPT !.shown = RenderNoteList(r.notes, EmptyStr)]
                        ELSE r.view)
             /\ lastEdit' = Interrupt(lastEdit, r.view)
       /\ ready' = (ready \/ e.origin = "load")
       /\ last' = [Step("create", e.note.id, ok, Null)
                    EXCEPT !.origin = e.origin, !.note = e.note]
  /\ pending' = Tail(pending)
  /\ UNCHANGED <<indexedDB, localStorage, clock, alerted, timerVars, searchValue>>

\* saveNote(newNote) of createNewNote settles. A rejection leaves createNewNote
\* by its throw: the button's handler and the delete handler end there, and
\* loadNotes logs it.
CreateDone ==
  /\ pending # <<>> /\ Head(pending).kind = "create"
  /\ LET e == Head(pending) IN
     \E ok \in BOOLEAN :
       /\ Settles(e, ok)
       /\ failures' = FailuresAfter(e, ok)
       /\ IF ok
          THEN LET r == CreateContinuation(notes, e.note, View)
               IN /\ idb' = IF indexedDB THEN StorePut(idb, e.note) ELSE idb
                  /\ notes' = r.notes
                  /\ SetView(IF e.origin = "delete"
                             THEN [r.view EXCEPT !.shown = RenderNoteList(r.notes, EmptyStr)]
                             ELSE r.view)
                  /\ lastEdit' = Interrupt(lastEdit, r.view)
          ELSE UNCHANGED <<idb, ctlVars, lastEdit>>
       /\ ready' = (ready \/ e.origin = "load")
       /\ last' = [Step("create", e.note.id, ok, Null)
                    EXCEPT !.origin = e.origin, !.note = e.note]
  /\ pending' = Tail(pending)
  /\ UNCHANGED <<indexedDB, localStorage, clock, alerted, timerVars, searchValue>>

\* saveCurrentNote after `await saveNote(note)`: the entry whose id is the
\* selection at this time is replaced
SaveContinuation(ns, cur, note) == ReplaceCurrent(ns, cur, note)

\* a mutant of SaveDone: the list is updated whether or not the write succeeded
SaveDoneOptimistic ==
  /\ pending # <<>> /\ Head(pending).kind = "save"
  /\ LET e == Head(pending) IN
     \E ok \in BOOLEAN :
       /\ Settles(e, ok)
       /\ failures' = FailuresAfter(e, ok)
       /\ idb' = IF ok /\ indexedDB THEN StorePut(idb, e.note) ELSE idb
       /\ notes' = SaveContinuation(notes, currentNoteId, e.note)
       /\ displayed' = RenderNoteList(notes', EmptyStr)
       /\ last' = [Step("save", e.note.id, ok, Null) EXCEPT !.note = e.note]
  /\ pending' = Tail(pending)
  /\ UNCHANGED <<indexedDB, localStorage, clock, ready, alerted, currentNoteId, previewHTML,
                 noteTitleValue, editorValue, timerVars, searchValue, lastEdit>>

\* saveNote(note) of saveCurrentNote settles
SaveDone ==
  /\ pending # <<>> /\ Head(pending).kind = "save"
  /\ LET e == Head(pending) IN
     \E ok \in BOOLEAN :
       /\ Settles(e, ok)
       /\ failures' = FailuresAfter(e, ok)
       /\ IF ok
          THEN /\ idb' = IF indexedDB THEN StorePut(idb, e.note) ELSE idb
               /\ notes' = SaveContinuation(notes, currentNoteId, e.note)
               /\ displayed' = RenderNoteList(notes', EmptyStr)
          ELSE UNCHANGED <<idb, notes, displayed>>
       /\ last' = [Step("save", e.note.id, ok, Null) EXCEPT !.note = e.note]
  /\ pending' = Tail(pending)
  /\ UNCHANGED <<indexedDB, localStorage, clock, ready, alerted, currentNoteId, previewHTML,
                 noteTitleValue, editorValue, timerVars, searchValue, lastEdit>>

\* a mutant of DeleteContinuation: the selection is cleared and nothing is opened
DeleteContinuationClear(ns, id, v) ==
  LET ns2 == SelectSeq(ns, LAMBDA n : n.id # id)
  IN [notes |-> ns2,
      view |-> [(IF v.cur = id
                 THEN [v EXCEPT !.cur = Null, !.title = EmptyStr, !.content = EmptyStr]
                 ELSE v) EXCEPT !.shown = RenderNoteList(ns2, EmptyStr)],
      create |-> FALSE]

\* the delete handler after `await deleteNote(noteId)`: the note leaves the
\* list; when it is the open one, the first remaining note is opened or, with
\* none left, createNewNote is called (`create`); the list is rendered last,
\* after createNewNote when that is awaited
DeleteContinuation(ns, id, v) ==
  LET ns2 == SelectSeq(ns, LAMBDA n : n.id # id)
  IN IF v.cur = id /\ Len(ns2) = 0
     THEN [notes |-> ns2, view |-> v, create |-> TRUE]
     ELSE [notes |-> ns2,
           view |-> [(IF v.cur = id THEN OpenNote(ns2, ns2[1].id, v) ELSE v)
                     EXCEPT !.shown = RenderNoteList(ns2, EmptyStr)],
           create |-> FALSE]

\* deleteNote(noteId) of the delete handler settles. A rejection ends the
\* handler at its await.
DeleteDone ==
  /\ pending # <<>> /\ Head(pending).kind = "delete"
  /\ LET e == Head(pending) IN
     \E ok \in BOOLEAN :
       /\ Settles(e, ok)
       /\ IF ok
          THEN LET r == DeleteContinuation(notes, e.id, View)
               IN /\ idb' = IF indexedDB THEN StoreDelete(idb, e.id) ELSE idb
                  /\ notes' = r.notes
                  /\ SetView(r.view)
                  /\ lastEdit' = Interrupt(lastEdit, r.view)
                  /\ IF r.create
                     THEN CreateNewNote(Tail(pending), "delete", failures)
                     ELSE /\ pending' = Tail(pending)
                          /\ failures' = failures
                          /\ localStorage' = localStorage
          ELSE /\ pending' = Tail(pending)
               /\ failures' = FailuresAfter(e, ok)
               /\ UNCHANGED <<idb, localStorage, ctlVars, lastEdit>>
       /\ last' = [Step("delete", e.id, ok, e.shownId) EXCEPT !.cur = currentNoteId]
  /\ UNCHANGED <<indexedDB, clock, ready, alerted, timerVars, searchValue>>

----------------------------------------------------------------------------
(* Gestures and timers: tasks of the event loop. A task runs only when the   *)
(* microtask queue is empty, so in fallback mode (where every promise is     *)
(* settled when it is returned) never between a handler's await and its      *)
(* continuation.                                                             *)

TaskMayRun == ready /\ (indexedDB \/ pending = <<>>)

PendingCreates == Len(SelectSeq(pending, LAMBDA e : e.kind = "create"))

\* click on the new-note button, or Ctrl+N
ClickNew ==
  /\ TaskMayRun
  /\ Len(pending) < MaxPending
  /\ Len(notes) + PendingCreates < MaxNotes
  /\ CreateNewNote(pending, "button", failures)
  /\ last' = Task
  /\ UNCHANGED <<indexedDB, idb, clock, ready, alerted, ctlVars, timerVars,
                 searchValue, lastEdit>>

\* click on the i-th list entry: the entry's listener opens its note
ClickEntry(i) ==
  /\ TaskMayRun
  /\ LET v == OpenNote(notes, displayed[i].id, View)
     IN /\ SetView(v)
        /\ lastEdit' = Interrupt(lastEdit, v)
        /\ last' = Task
  /\ UNCHANGED <<storeVars, clock, ready, alerted, notes, timerVars, searchValue,
                 pending, failures>>

\* history: the id of the note the i-th entry displays, Null when that note has
\* left the list since the entry was rendered
ShownNote(i) == IF displayed[i].id \in Ids(notes) THEN displayed[i].id ELSE Null

\* Shift+click on the i-th list entry: the entry's own listener opens its note,
\* then the list's listener looks a note up by the entry's text and deletes it
ShiftClickEntry(i) ==
  /\ TaskMayRun
  /\ LET v == OpenNote(notes, displayed[i].id, View)
         noteId == FindByTitle(notes, displayed[i].text)
     IN /\ SetView(v)
        /\ lastEdit' = Interrupt(lastEdit, v)
        /\ IF noteId # Null
           THEN /\ Len(pending) < MaxPending
                /\ CallDeleteNote(pending, Entry("delete", NoNote, noteId, "click",
                                                 ShownNote(i)))
           ELSE UNCHANGED <<pending, localStorage>>
        /\ last' = Step("shiftClick", noteId, noteId # Null, ShownNote(i))
  /\ UNCHANGED <<indexedDB, idb, clock, ready, alerted, notes, timerVars,
                 searchValue, failures>>

\* a mutant of ClearTimeout: nothing is cancelled
ClearTimeoutNone(ts, handle) == ts

\* clearTimeout(handle): the timer leaves the live ones; nothing when the
\* handle is undefined or its timer has fired. A handle is the time its timer is
\* due.
ClearTimeout(ts, handle) ==
  LET k == IF handle = <<>> THEN 0 ELSE FindIndex(ts, LAMBDA due : due = handle[1])
  IN IF k = 0 THEN ts ELSE SubSeq(ts, 1, k - 1) \o SubSeq(ts, k + 1, Len(ts))

\* setTimeout(saveCurrentNote, 1000) at time now
SetTimeout(ts, now) == Append(ts, now + DebounceDelay)

\* a mutant of DebounceTimers: the pending timer is not cleared
DebounceTimersNoClear(ts, handle, now) == SetTimeout(ts, now)

\* the input listeners: clearTimeout(debounceTimer), then
\* debounceTimer = setTimeout(saveCurrentNote, 1000)
DebounceTimers(ts, handle, now) == SetTimeout(ClearTimeout(ts, handle), now)

\* input event on the title field
TypeTitle(t) ==
  /\ TaskMayRun
  /\ t # noteTitleValue
  /\ noteTitleValue' = t
  /\ timers' = DebounceTimers(timers, debounceTimer, clock)
  /\ debounceTimer' = <<clock + DebounceDelay>>
  /\ lastEdit' = Edit(lastEdit, clock, t, editorValue)
  /\ last' = Task
  /\ UNCHANGED <<storeVars, clock, ready, alerted, notes, currentNoteId, previewHTML, editorValue,
                 searchValue, displayed, pending, failures>>

\* input event on the editor
TypeContent(c) ==
  /\ TaskMayRun
  /\ c # editorValue
  /\ editorValue' = c
  /\ timers' = DebounceTimers(timers, debounceTimer, clock)
  /\ debounceTimer' = <<clock + DebounceDelay>>
  /\ lastEdit' = Edit(lastEdit, clock, noteTitleValue, c)
  /\ last' = Task
  /\ UNCHANGED <<storeVars, clock, ready, alerted, notes, currentNoteId, previewHTML, noteTitleValue,
                 searchValue, displayed, pending, failures>>

\* the k-th live timer is due and its callback, saveCurrentNote, runs. The
\* handle of a timer that has fired is inert; it is dropped here.
TimerFire(k) ==
  /\ TaskMayRun
  /\ clock >= timers[k]
  /\ Len(pending) < MaxPending
  /\ SaveCurrentNote(pending, failures)
  /\ timers' = SubSeq(timers, 1, k - 1) \o SubSeq(timers, k + 1, Len(timers))
  /\ debounceTimer' = IF debounceTimer = <<timers[k]>> THEN <<>> ELSE debounceTimer
  /\ lastEdit' = <<>>
  /\ last' = [Step("fire", currentNoteId, currentNoteId # Null, Null)
              EXCEPT !.note = IF currentNoteId # Null THEN CurrentRecord ELSE NoNote,
                     !.was = lastEdit]
  /\ UNCHANGED <<indexedDB, idb, clock, ready, alerted, ctlVars, searchValue>>

\* Ctrl+S: saveCurrentNote at once; the timer is left alone
CtrlS ==
  /\ TaskMayRun
  /\ Len(pending) < MaxPending
  /\ SaveCurrentNote(pending, failures)
  /\ last' = Task
  /\ UNCHANGED <<indexedDB, idb, clock, ready, alerted, ctlVars, timerVars,
                 searchValue, lastEdit>>

\* input event on the search field
SearchInput(f) ==
  /\ TaskMayRun
  /\ f # searchValue
  /\ searchValue' = f
  /\ displayed' = RenderNoteList(notes, ToLowerCase(f))
  /\ last' = Task
  /\ UNCHANGED <<storeVars, clock, ready, alerted, notes, currentNoteId, previewHTML, noteTitleValue,
                 editorValue, timerVars, pending, failures, lastEdit>>

\* time passes
Tick ==
  /\ indexedDB \/ pending = <<>>
  /\ clock + TickMs <= (MaxTicks + 1) * TickMs
  /\ clock' = clock + TickMs
  /\ UNCHANGED <<storeVars, ready, alerted, ctlVars, timerVars, searchValue,
                 pending, failures, lastEdit, last>>

Next ==
  \/ InitDBDone
  \/ GetNotesDone
  \/ CreateDone
  \/ SaveDone
  \/ DeleteDone
  \/ ClickNew
  \/ \E i \in 1..Len(displayed) : ClickEntry(i)
  \/ \E i \in 1..Len(displayed) : ShiftClickEntry(i)
  \/ \E t \in TitleInputs : TypeTitle(t)
  \/ \E c \in ContentInputs : TypeContent(c)
  \/ \E k \in 1..Len(timers) : TimerFire(k)
  \/ CtrlS
  \/ Tick

Spec == Init /\ [][Next]_vars

----------------------------------------------------------------------------
(* The debounce specification: startup, edits, opening notes, searching and  *)
(* the timer, with a finer clock                                             *)

FineTick ==
  /\ indexedDB \/ pending = <<>>
  /\ clock + FineMs <= TickMs + MaxFineTicks * FineMs
  /\ clock' = clock + FineMs
  /\ UNCHANGED <<storeVars, ready, alerted, ctlVars, timerVars, searchValue,
                 pending, failures, lastEdit, last>>

NextDebounce ==
  \/ InitDBDone
  \/ GetNotesDone
  \/ CreateDone
  \/ SaveDone
  \/ \E i \in 1..Len(displayed) : ClickEntry(i)
  \/ \E t \in TitleInputs : TypeTitle(t)
  \/ \E c \in ContentInputs : TypeContent(c)
  \/ \E k \in 1..Len(timers) : TimerFire(k)
  \/ \E f \in SearchInputs : SearchInput(f)
  \/ FineTick

SpecDebounce == Init /\ [][NextDebounce]_vars

----------------------------------------------------------------------------
(* The search specification: a session that starts with the notes of an      *)
(* earlier session loaded and the first one open; searching, opening and     *)
(* saving                                                                    *)

SearchTitles == {EmptyStr, <<"A", "b">>, <<"X">>}
SearchContents == {EmptyStr, <<"x", "A", "B">>}
FilterInputs == {EmptyStr, <<"A">>, <<"a", "B">>, <<"b", "a">>, <<"x">>, <<"U">>}

\* the lists of one or two notes an earlier session can have stored
SearchLists ==
  LET texts == SearchTitles \X SearchContents
      note(k, tc) == Note(ToString(k), tc[1], tc[2], ToISOString(0))
  IN {<<note(1, a)>> : a \in texts} \cup {<<note(1, a), note(2, b)>> : a, b \in texts}

\* the state after initDB and loadNotes have resolved on such a store
SearchInit ==
  /\ indexedDB \in BOOLEAN
  /\ \E ns \in SearchLists :
       /\ idb = IF indexedDB THEN ns ELSE <<>>
       /\ localStorage = IF indexedDB THEN Null ELSE JSONStringify(ns)
       /\ notes = ns
       /\ currentNoteId = ns[1].id
       /\ noteTitleValue = ns[1].title
       /\ editorValue = ns[1].content
       /\ previewHTML = RenderPreview(ns[1].content)
       /\ displayed = RenderNoteList(ns, EmptyStr)
  /\ clock = TickMs
  /\ ready = TRUE
  /\ alerted = FALSE
  /\ debounceTimer = <<>>
  /\ timers = <<>>
  /\ searchValue = EmptyStr
  /\ pending = <<>>
  /\ failures = 0
  /\ lastEdit = <<>>
  /\ last = Step("getNotes", Null, TRUE, Null)

NextSearch ==
  \/ \E f \in FilterInputs : SearchInput(f)
  \/ \E i \in 1..Len(displayed) : ClickEntry(i)
  \/ CtrlS
  \/ SaveDone

SpecSearch == SearchInit /\ [][NextSearch]_vars

----------------------------------------------------------------------------
(* The legacy controller (the earlier app.js): the listeners are registered   *)
(* while initDB is still pending, loadNotes creates nothing, and the delete   *)
(* handler clears the selection. renderNoteList, openNote, saveCurrentNote,   *)
(* the creation and the input listeners are the same code.                    *)

\* the state after the module's top level has run: `initDB().then(...)` is
\* pending and every listener is registered
LegacyInit ==
  /\ indexedDB \in BOOLEAN
  /\ \E prior \in PriorStores :
       /\ idb = IF indexedDB THEN prior ELSE <<>>
       /\ localStorage = IF indexedDB \/ prior = <<>> THEN Null ELSE JSONStringify(prior)
  /\ clock = TickMs
  /\ ready = TRUE
  /\ alerted = FALSE
  /\ notes = <<>>
  /\ currentNoteId = Null
  /\ debounceTimer = <<>>
  /\ timers = <<>>
  /\ noteTitleValue = EmptyStr
  /\ editorValue = EmptyStr
  /\ previewHTML = EmptyStr
  /\ searchValue = EmptyStr
  /\ displayed = <<>>
  /\ pending = <<[Entry("initDB", NoNote, Null, "load", Null)
                  EXCEPT !.settled = IF indexedDB THEN "pending" ELSE "resolved"]>>
  /\ failures = 0
  /\ lastEdit = <<>>
  /\ last = Step("start", Null, TRUE, Null)

\* initDB settles: resolved -> loadNotes(); a rejection is unhandled
LegacyInitDBDone ==
  /\ pending # <<>> /\ Head(pending).kind = "initDB"
  /\ \E ok \in BOOLEAN :
       /\ Settles(Head(pending), ok)
       /\ failures' = FailuresAfter(Head(pending), ok)
       /\ IF ok
          THEN CallRead(Tail(pending), Entry("getNotes", NoNote, Null, "load", Null))
          ELSE pending' = Tail(pending)
       /\ last' = Step("initDB", Null, ok, Null)
  /\ UNCHANGED <<storeVars, clock, ready, alerted, ctlVars, timerVars, searchValue,
                 lastEdit>>

\* getNotes settles inside loadNotes: the list is loaded and rendered and the
\* first note, if any, is opened; a rejection is unhandled
LegacyGetNotesDone ==
  /\ pending # <<>> /\ Head(pending).kind = "getNotes"
  /\ \E ok \in BOOLEAN :
       /\ Settles(Head(pending), ok)
       /\ failures' = FailuresAfter(Head(pending), ok)
       /\ IF ok
          THEN LET ns == StoredNotes
                   v0 == [View EXCEPT !.shown = RenderNoteList(ns, EmptyStr)]
                   v == IF Len(ns) > 0 THEN OpenNote(ns, ns[1].id, v0) ELSE v0
               IN /\ notes' = ns
                  /\ SetView(v)
                  /\ lastEdit' = Interrupt(lastEdit, v)
          ELSE UNCHANGED <<ctlVars, lastEdit>>
       /\ last' = Step("getNotes", Null, ok, Null)
  /\ pending' = Tail(pending)
  /\ UNCHANGED <<storeVars, clock, ready, alerted, timerVars, searchValue>>

\* the delete handler after `await deleteNote(noteId)`: the note leaves the
\* list; when it is the open one the selection and the fields are cleared
LegacyDeleteContinuation(ns, id, v) ==
  LET ns2 == SelectSeq(ns, LAMBDA n : n.id # id)
      v2 == IF v.cur = id
            THEN [v EXCEPT !.cur = Null, !.title = EmptyStr, !.content = EmptyStr]
            ELSE v
  IN [notes |-> ns2, view |-> [v2 EXCEPT !.shown = RenderNoteList(ns2, EmptyStr)]]

\* deleteNote(noteId) of the delete handler settles
LegacyDeleteDone ==
  /\ pending # <<>> /\ Head(pending).kind = "delete"
  /\ LET e == Head(pending) IN
     \E ok \in BOOLEAN :
       /\ Settles(e, ok)
       /\ failures' = FailuresAfter(e, ok)
       /\ IF ok
          THEN LET r == LegacyDeleteContinuation(notes, e.id, View)
               IN /\ idb' = IF indexedDB THEN StoreDelete(idb, e.id) ELSE idb
                  /\ notes' = r.notes
                  /\ SetView(r.view)
                  /\ lastEdit' = Interrupt(lastEdit, r.view)
          ELSE UNCHANGED <<idb, ctlVars, lastEdit>>
       /\ last' = [Step("delete", e.id, ok, e.shownId) EXCEPT !.cur = currentNoteId]
  /\ pending' = Tail(pending)
  /\ UNCHANGED <<indexedDB, localStorage, clock, ready, alerted, timerVars, searchValue>>

NextLegacy ==
  \/ LegacyInitDBDone
  \/ LegacyGetNotesDone
  \/ CreateDone
  \/ SaveDone
  \/ LegacyDeleteDone
  \/ ClickNew
  \/ \E i \in 1..Len(displayed) : ShiftClickEntry(i)
  \/ \E c \in ContentInputs : TypeContent(c)
  \/ \E k \in 1..Len(timers) : TimerFire(k)
  \/ CtrlS
  \/ Tick

SpecLegacy == LegacyInit /\ [][NextLegacy]_vars

----------------------------------------------------------------------------
(* The preview specification: startup, typing markdown, opening notes,      *)
(* saving and toggling the preview                                           *)

MdHeadingBold ==
  <<"#", " ", "H", "i", " ", "*", "*", "t", "h", "e", "r", "e", "*", "*">>
MdSubheadingItalic ==
  <<"#", "#", " ", "H", "i", " ", "*", "x", "*">>
MdSecondLine ==
  <<"a", "\n", "#", " ", "b", " ", "*", "*", "c", "*", "*">>
MdBoldItalic ==
  <<"*", "*", "b", "*", "*", " ", "*", "i", "*">>
MdLink ==
  <<"[", "t", "]", "(", "u", ")">>

MarkdownInputs == {MdHeadingBold, MdSubheadingItalic, MdSecondLine, MdBoldItalic, MdLink}

\* click on the preview toggle: both panes' `hidden` class is toggled and, when
\* the preview is the visible one afterwards, renderPreview() runs. The class
\* lists are not part of the state: the click is taken for either state of them.
TogglePreview ==
  /\ TaskMayRun
  /\ \E hidden \in BOOLEAN :
       /\ previewHTML' = IF hidden THEN previewHTML ELSE RenderPreview(editorValue)
       /\ last' = IF hidden THEN Task
                  ELSE [Step("preview", Null, TRUE, Null) EXCEPT !.was = <<editorValue>>]
  /\ UNCHANGED <<storeVars, clock, ready, alerted, notes, currentNoteId, noteTitleValue,
                 editorValue, displayed, timerVars, searchValue, pending, failures,
                 lastEdit>>

NextPreview ==
  \/ InitDBDone
  \/ GetNotesDone
  \/ CreateDone
  \/ SaveDone
  \/ \E i \in 1..Len(displayed) : ClickEntry(i)
  \/ \E c \in MarkdownInputs : TypeContent(c)
  \/ CtrlS
  \/ TogglePreview

SpecPreview == Init /\ [][NextPreview]_vars

----------------------------------------------------------------------------
(* The adapter specification: db.js called directly, each call taken from    *)
(* its start to the settling of its promise                                  *)

StoreIds == {ToString(1), ToString(2), ToString(10)}
StoreTitles == {<<"A">>}
StoreContents == {EmptyStr, <<Quote, Backslash>>}
StoreNotes ==
  {Note(id, t, c, ToISOString(TickMs)) : id \in StoreIds, t \in StoreTitles,
                                           c \in StoreContents}

appVars == <<clock, ready, alerted, ctlVars, timerVars, searchValue, pending, lastEdit>>

StoreInit ==
  /\ indexedDB \in BOOLEAN
  /\ idb = <<>>
  /\ localStorage = Null
  /\ clock = TickMs
  /\ ready = FALSE
  /\ alerted = FALSE
  /\ notes = <<>>
  /\ currentNoteId = Null
  /\ debounceTimer = <<>>
  /\ timers = <<>>
  /\ noteTitleValue = EmptyStr
  /\ editorValue = EmptyStr
  /\ previewHTML = EmptyStr
  /\ searchValue = EmptyStr
  /\ displayed = <<>>
  /\ pending = <<>>
  /\ failures = 0
  /\ lastEdit = <<>>
  /\ last = Step("start", Null, TRUE, Null)

\* the promise of a db.js call settles with outcome ok: an IndexedDB request
\* may fail, and so may the fallback's setItem in saveNote
CallSettles(op, ok) ==
  /\ ok \/ (failures < MaxFailures /\ (indexedDB \/ op = "saveNote"))
  /\ failures' = IF ok THEN failures ELSE failures + 1

\* saveNote(note)
DbSaveNote(note) ==
  /\ \E ok \in BOOLEAN :
       /\ CallSettles("saveNote", ok)
       /\ idb' = IF ok /\ indexedDB THEN StorePut(idb, note) ELSE idb
       /\ localStorage' = IF ok /\ ~indexedDB THEN SaveNoteFallback(localStorage, note)
                          ELSE localStorage
       /\ last' = [Step("saveNote", note.id, ok, Null)
                   EXCEPT !.note = note, !.was = StoredNotes]
  /\ UNCHANGED <<indexedDB, appVars>>

\* getNotes(): `was` records what it resolved with
DbGetNotes ==
  /\ \E ok \in BOOLEAN :
       /\ CallSettles("getNotes", ok)
       /\ last' = [Step("getNotes", Null, ok, Null)
                   EXCEPT !.was = IF ok THEN StoredNotes ELSE <<>>]
  /\ UNCHANGED <<storeVars, appVars>>

\* deleteNote(id)
DbDeleteNote(id) ==
  /\ \E ok \in BOOLEAN :
       /\ CallSettles("deleteNote", ok)
       /\ idb' = IF ok /\ indexedDB THEN StoreDelete(idb, id) ELSE idb
       /\ localStorage' = IF ok /\ ~indexedDB THEN DeleteNoteFallback(localStorage, id)
                          ELSE localStorage
       /\ last' = [Step("deleteNote", id, ok, Null) EXCEPT !.was = StoredNotes]
  /\ UNCHANGED <<indexedDB, appVars>>

NextStore ==
  \/ \E note \in StoreNotes : DbSaveNote(note)
  \/ DbGetNotes
  \/ \E id \in StoreIds : DbDeleteNote(id)

SpecStore == StoreInit /\ [][NextStore]_vars

----------------------------------------------------------------------------
(* Claims about the controller *)

\* no handler is suspended and no debounce timer is live
Quiescent == ready /\ pending = <<>> /\ timers = <<>>

\* the list and the store hold the same ids, each once, with the same title
\* and content per id
MemoryMatchesStore ==
  LET stored == StoredNotes
  IN /\ Ids(notes) = Ids(stored)
     /\ Cardinality(Ids(notes)) = Len(notes)
     /\ Cardinality(Ids(stored)) = Len(stored)
     /\ \A i \in 1..Len(notes) : \A j \in 1..Len(stored) :
          notes[i].id = stored[j].id =>
            /\ notes[i].title = stored[j].title
            /\ notes[i].content = stored[j].content

\* C1: in every quiescent state reached without a failed store operation, the
\* in-memory list and the store hold the same notes: the same ids, each exactly
\* once, with the same title and content per id
C1_MemoryMatchesStore == (Quiescent /\ failures = 0) => MemoryMatchesStore

\* C2: a Shift+click on a list entry removes exactly the note the entry
\* displays: the list's handler finds a note to delete, and the note it deletes
\* from the list and the store is the one whose id the entry's closure holds
C2_DeletesShownNote ==
  /\ (last.op = "shiftClick" /\ last.shownId # Null) =>
        (last.ok /\ last.id = last.shownId)
  /\ (last.op = "delete" /\ last.ok /\ last.shownId # Null) =>
        last.id = last.shownId

\* C3: creations yield distinct identifiers, so the in-memory list never holds
\* two notes with the same id
C3_DistinctIds == Cardinality(Ids(notes)) = Len(notes)

\* C5: once no handler is suspended, the selection is NoSelection or an id
\* present in the in-memory list
C5_SelectionInList ==
  pending = <<>> => (currentNoteId = Null \/ currentNoteId \in Ids(notes))

\* C4: once the delete handler has completed for the note that was open, the
\* view is not left without an open note while notes remain: with notes
\* remaining the first one is open (selected and loaded into the fields); with
\* none remaining a fresh note, "Untitled" with empty content, has been created,
\* is first in the list and is open
C4_OpenAfterDelete ==
  /\ (last.op = "delete" /\ last.ok /\ last.cur = last.id /\ notes # <<>>) =>
        /\ currentNoteId = notes[1].id
        /\ noteTitleValue = notes[1].title
        /\ editorValue = notes[1].content
  /\ (last.op = "create" /\ last.ok /\ last.origin = "delete") =>
        /\ notes # <<>> /\ notes[1] = last.note
        /\ last.note.title = Untitled /\ last.note.content = EmptyStr
        /\ currentNoteId = last.note.id
        /\ noteTitleValue = Untitled /\ editorValue = EmptyStr
  /\ notes # <<>> => currentNoteId # Null

\* a delete of the open note has completed and notes remain
C4_Witness ==
  /\ last.op = "delete" /\ last.ok /\ last.cur = last.id
  /\ notes # <<>> /\ currentNoteId = notes[1].id

\* a delete of the last note has completed and the fresh note is open
C4_WitnessFresh ==
  /\ last.op = "create" /\ last.ok /\ last.origin = "delete"
  /\ currentNoteId = last.note.id

----------------------------------------------------------------------------
(* Claims about the debounced save *)

\* C6: a burst of edits is saved once, no earlier than 1000 ms after its last
\* edit, with the title and content of that edit: when a timer fires, it is the
\* only timer of a burst that has not fired before, the clock is at least 1000
\* ms past the burst's last edit, no other timer stays live, and (a note being
\* open and nothing but edits having changed the fields since) the record
\* handed to saveNote carries the title and content as of the last edit
C6_Debounce ==
  last.op = "fire" =>
    /\ last.was # <<>>
    /\ clock >= last.was[1].at + DebounceDelay
    /\ timers = <<>>
    /\ (last.ok /\ last.was[1].clean) =>
         /\ last.note.title = last.was[1].title
         /\ last.note.content = last.was[1].content

\* the timer has fired for a burst of two or more edits made at different
\* times less than 1000 ms apart, and the save was issued
C6_Witness ==
  /\ last.op = "fire" /\ last.ok
  /\ last.was # <<>> /\ last.was[1].clean
  /\ last.was[1].first < last.was[1].at
  /\ last.was[1].at - last.was[1].first < DebounceDelay

----------------------------------------------------------------------------
(* Claims about the persistence adapter *)

\* C7: save is an upsert on both backends: the store holds at most one record
\* per id; a save for a stored id replaces that whole record and leaves the
\* number of records and every other record as they were; a save for a new id
\* adds exactly one record
C7_Upsert ==
  LET stored == StoredNotes
  IN /\ Cardinality(Ids(stored)) = Len(stored)
     /\ (last.op = "saveNote" /\ last.ok) =>
          IF last.note.id \in Ids(last.was)
          THEN /\ Len(stored) = Len(last.was)
               /\ \A i \in 1..Len(stored) :
                    stored[i] = IF last.was[i].id = last.note.id THEN last.note
                                ELSE last.was[i]
          ELSE /\ Len(stored) = Len(last.was) + 1
               /\ \E i \in 1..Len(stored) : stored[i] = last.note
               /\ \A j \in 1..Len(last.was) :
                    \E i \in 1..Len(stored) : stored[i] = last.was[j]

\* a save has replaced the record of a stored id, other records being stored
C7_Witness ==
  /\ last.op = "saveNote" /\ last.ok
  /\ Len(last.was) >= 2
  /\ \E i \in 1..Len(last.was) :
       last.was[i].id = last.note.id /\ last.was[i] # last.note

\* C8: after a successful save(note), listAll returns exactly one note with
\* that id, and its id, title and content are those saved
C8_RoundTrip ==
  (last.op = "saveNote" /\ last.ok) =>
    LET got == StoredNotes
        hits == {i \in 1..Len(got) : got[i].id = last.note.id}
    IN /\ Cardinality(hits) = 1
       /\ \A i \in hits : /\ got[i].title = last.note.title
                          /\ got[i].content = last.note.content

\* a note whose content needs escaping has been saved to the fallback store,
\* over an earlier record of its id
C8_Witness ==
  /\ last.op = "saveNote" /\ last.ok /\ ~indexedDB
  /\ last.note.content = <<Quote, Backslash>>
  /\ last.note.id \in Ids(last.was)

\* C9: delete(id) for an id that is not stored leaves the stored notes and
\* their order as they were, and in the fallback store it cannot be rejected;
\* a successful delete leaves no record of the id and the others in place, so
\* a second delete changes nothing
C9_DeleteMissing ==
  last.op = "deleteNote" =>
    /\ ~indexedDB => last.ok
    /\ last.id \notin Ids(last.was) => StoredNotes = last.was
    /\ last.ok => /\ last.id \notin Ids(StoredNotes)
                  /\ StoredNotes = SelectSeq(last.was, LAMBDA n : n.id # last.id)

\* a delete of an id that is not stored has resolved on a store that holds notes
C9_Witness ==
  /\ last.op = "deleteNote" /\ last.ok
  /\ last.was # <<>>
  /\ last.id \notin Ids(last.was)

----------------------------------------------------------------------------
(* Claims about startup *)

\* C10: when the structured backend is unavailable during initialize(), the
\* API being absent or the opening of the database failing, initialize()
\* completes without failure and without an alert, and every later operation
\* is served by the fallback store at once, the IndexedDB store being untouched
C10_SilentFallback ==
  /\ last.op = "initDB" => last.ok
  /\ ~alerted
  /\ ~indexedDB => /\ idb = <<>>
                   /\ \A i \in 1..Len(pending) : pending[i].settled # "pending"

----------------------------------------------------------------------------
(* Claims about failed writes *)

\* the step in which the write of saveCurrentNote or createNewNote is rejected
RejectedWriteStep ==
  /\ pending # <<>> /\ Head(pending).kind \in {"save", "create"}
  /\ pending' = Tail(pending)
  /\ ~last'.ok

\* C11: when the store rejects the write issued by saveCurrentNote or by
\* createNewNote, the rejection leaves the in-memory list and the selection as
\* they were, and afterwards the listeners are registered and a gesture can run
C11_RejectedWrite ==
  [][RejectedWriteStep =>
       /\ notes' = notes
       /\ currentNoteId' = currentNoteId
       /\ ready' /\ (indexedDB \/ pending' = <<>>)]_vars

\* the write of saveCurrentNote has been rejected while the fields differ from
\* the open note's entry in the list
C11_Witness ==
  /\ last.op = "save" /\ ~last.ok
  /\ \E i \in 1..Len(notes) :
       notes[i].id = currentNoteId /\ notes[i].content # editorValue

----------------------------------------------------------------------------
(* Claims about searching *)

\* a and b are the same letter, case aside
SameLetter(a, b) ==
  \/ a = b
  \/ {a, b} \in {{"A", "a"}, {"B", "b"}, {"U", "u"}, {"X", "x"}}

\* s contains f, case aside
ContainsNoCase(s, f) ==
  \E k \in 0..(Len(s) - Len(f)) : \A j \in 1..Len(f) : SameLetter(s[k + j], f[j])

\* the ids of the notes of ns that match the filter f, in list order
MatchingIds(ns, f) ==
  LET hits == SelectSeq(ns, LAMBDA n : \/ f = EmptyStr
                                       \/ ContainsNoCase(n.title, f)
                                       \/ ContainsNoCase(n.content, f))
  IN [i \in 1..Len(hits) |-> hits[i].id]

\* the note ids of the displayed entries, in display order
ShownIds(shown) == [i \in 1..Len(shown) |-> shown[i].id]

\* C12: the list displayed by an input in the search field is exactly the
\* notes whose title or content contains the typed filter, case aside, in list
\* order; the empty filter displays all notes; the list itself is not changed
C12_FilterCorrect ==
  [][searchValue' # searchValue =>
       /\ ShownIds(displayed') = MatchingIds(notes, searchValue')
       /\ notes' = notes]_vars

\* a search whose filter differs in case from the text it matches displays one
\* of two notes
C12_Witness ==
  /\ searchValue = <<"a", "B">>
  /\ Len(notes) = 2 /\ Len(displayed) = 1
  /\ ShownIds(displayed) = MatchingIds(notes, searchValue)

----------------------------------------------------------------------------
(* Claims about creation *)

\* createNewNote has completed: its note is first in the list, has the default
\* title and no content, is the open note, and is in the store
CreatedNoteOpen ==
  (last.op = "create" /\ last.ok) =>
    /\ notes # <<>> /\ notes[1] = last.note
    /\ last.note.title = Untitled /\ last.note.content = EmptyStr
    /\ currentNoteId = last.note.id
    /\ noteTitleValue = Untitled /\ editorValue = EmptyStr
    /\ \E i \in 1..Len(StoredNotes) : StoredNotes[i] = last.note

\* a note whose id was not in the list enters it only as a record of the store
EntersMemoryStored ==
  LET stored == IF indexedDB THEN StoreGetAll(idb') ELSE GetNotesFallback(localStorage')
  IN \A i \in 1..Len(notes') :
       notes'[i].id \notin Ids(notes) =>
         \E j \in 1..Len(stored) : stored[j] = notes'[i]

\* C13: when a create completes successfully the new note, "Untitled" and
\* empty, is in the store, first in the in-memory list and open; and a note
\* enters the in-memory list only when the store holds it, the write coming
\* first
C13_Create == []CreatedNoteOpen /\ [][EntersMemoryStored]_vars

\* the new-note button's create has completed in front of an older note
C13_Witness ==
  /\ last.op = "create" /\ last.ok /\ last.origin = "button"
  /\ Len(notes) = 2 /\ notes[1] = last.note /\ notes[2].id # last.note.id
  /\ currentNoteId = last.note.id

----------------------------------------------------------------------------
(* Claims about saving with no note open *)

\* a save is triggered: the shortcut is pressed or a debounce timer fires
SaveTriggered == CtrlS \/ \E k \in 1..Len(timers) : TimerFire(k)

\* C14: a save triggered, by the debounce timer or by the shortcut, while no
\* note is open is a no-op: no write is issued and the in-memory list, the
\* selection, the fields and the store are unchanged
C14_SaveNoOp ==
  [][(currentNoteId = Null /\ SaveTriggered) =>
       UNCHANGED <<notes, currentNoteId, noteTitleValue, editorValue, storeVars,
                   pending>>]_vars

\* the debounce timer has fired with no note open, after the open note was
\* deleted and text was typed into the cleared editor
C14_Witness ==
  /\ last.op = "fire" /\ ~last.ok
  /\ currentNoteId = Null
  /\ notes # <<>>
  /\ editorValue # EmptyStr
  /\ pending = <<>>

----------------------------------------------------------------------------
(* Claims about the markdown preview *)

MdHeadingBoldHTML ==
  <<"<", "h", "1", ">", "H", "i", " ", "<", "s", "t", "r", "o", "n", "g",
    ">", "t", "h", "e", "r", "e", "<", "/", "s", "t", "r", "o", "n", "g",
    ">", "<", "/", "h", "1", ">">>
MdSubheadingItalicHTML ==
  <<"<", "h", "2", ">", "H", "i", " ", "<", "e", "m", ">", "x", "<", "/",
    "e", "m", ">", "<", "/", "h", "2", ">">>
MdSecondLineHTML ==
  <<"a", "\n", "<", "h", "1", ">", "b", " ", "<", "s", "t", "r", "o", "n",
    "g", ">", "c", "<", "/", "s", "t", "r", "o", "n", "g", ">", "<", "/",
    "h", "1", ">">>
MdBoldItalicHTML ==
  <<"<", "s", "t", "r", "o", "n", "g", ">", "b", "<", "/", "s", "t", "r",
    "o", "n", "g", ">", " ", "<", "e", "m", ">", "i", "<", "/", "e", "m",
    ">">>
MdLinkHTML ==
  <<"<", "a", " ", "h", "r", "e", "f", "=", "\"", "u", "\"", ">", "t", "<",
    "/", "a", ">">>

\* what the five rules, applied in the order h1, h2, bold, italic, link, each
\* to the output of the one before, make of the inputs
ExpectedHTML(md) ==
  CASE md = MdHeadingBold -> MdHeadingBoldHTML
    [] md = MdSubheadingItalic -> MdSubheadingItalicHTML
    [] md = MdSecondLine -> MdSecondLineHTML
    [] md = MdBoldItalic -> MdBoldItalicHTML
    [] md = MdLink -> MdLinkHTML

\* C15: the renderer applies h1, h2, bold, italic, link in this order, each
\* over the output of the previous rule, so markers inside a heading are still
\* converted: "# Hi **there**" renders to "<h1>Hi <strong>there</strong></h1>",
\* and likewise for an italic in a subheading, a heading on a second line, bold
\* next to italic, and a link
C15_Markdown ==
  (last.op = "preview" /\ last.was[1] \in MarkdownInputs) =>
    /\ previewHTML = ExpectedHTML(last.was[1])
    /\ last.was[1] = MdHeadingBold => previewHTML = MdHeadingBoldHTML

\* the preview has been rendered for the input "# Hi **there**"
C15_Witness ==
  /\ last.op = "preview" /\ last.was = <<MdHeadingBold>>
  /\ previewHTML = MdHeadingBoldHTML

----------------------------------------------------------------------------
(* Claims about the shared timer *)

\* C16: at most one debounce timer is live at any time, shared by the title
\* and the content field: the live timer is the one whose handle debounceTimer
\* holds and it is the one armed by the latest edit to either field, so no
\* timer armed by an earlier edit is left to fire
C16_SingleTimer ==
  /\ Len(timers) <= 1
  /\ timers # <<>> =>
       /\ debounceTimer = <<timers[1]>>
       /\ lastEdit # <<>>
       /\ timers[1] = lastEdit[1].at + DebounceDelay

\* one timer is live after an edit to the title and an edit to the content made
\* at different times within one burst
C16_Witness ==
  /\ Len(timers) = 1
  /\ lastEdit # <<>> /\ lastEdit[1].clean
  /\ lastEdit[1].first < lastEdit[1].at
  /\ lastEdit[1].title = EmptyStr /\ lastEdit[1].content # EmptyStr

----------------------------------------------------------------------------
(* Claims about saves that overlap other gestures *)

\* the step in which the write of saveCurrentNote resolves
SaveCompletes ==
  /\ pending # <<>> /\ Head(pending).kind = "save"
  /\ pending' = Tail(pending)
  /\ last'.ok

\* C17: when saveCurrentNote completes, the in-memory list has the same ids in
\* the same positions as before, and only an entry whose id is the saved
\* record's id is replaced, whatever gesture changed the selection while the
\* write was pending
C17_SaveKeepsIds ==
  [][SaveCompletes =>
       /\ Len(notes') = Len(notes)
       /\ \A i \in 1..Len(notes) :
            /\ notes'[i].id = notes[i].id
            /\ notes'[i] # notes[i] => notes[i].id = Head(pending).note.id]_vars

----------------------------------------------------------------------------
(* Claims about deleted notes *)

\* a debounce timer fires: it is the only step that takes a timer away without
\* arming one
FireStep == Len(timers') < Len(timers)

\* C18: a delete that has completed is not undone by a save scheduled before
\* it: when the debounce timer fires and saves the open note, the timer having
\* been armed by an edit made while that note was in the list and the
\* selection not having changed since, the store still holds a record of that
\* id (a record leaves the store by deleteNote only), so the save rewrites a
\* record and does not bring a deleted one back
C18_DeletedStaysDeleted ==
  [][(/\ FireStep
      /\ currentNoteId # Null
      /\ lastEdit # <<>> /\ lastEdit[1].clean /\ lastEdit[1].listed) =>
       currentNoteId \in Ids(StoredNotes)]_vars

----------------------------------------------------------------------------
(* Claims about edits *)

\* an edit of the open note awaits its debounced save: the timer is live and
\* nothing but input events has changed the fields or the selection since, so
\* the fields hold the edited title and content of the note currentNoteId
EditPending ==
  /\ timers # <<>>
  /\ lastEdit # <<>> /\ lastEdit[1].clean
  /\ currentNoteId # Null /\ currentNoteId \in Ids(notes)

\* the step is a further input event, which replaces the edit by a newer one
NewEdit == lastEdit' # lastEdit /\ lastEdit' # <<>> /\ lastEdit'[1].clean

\* after the step the edit is still on its way to the store: the fields hold
\* it under a live timer, or a write carrying it is pending, or the store has it
EditHeld ==
  LET Carries(n) == /\ n.id = currentNoteId
                    /\ n.title = noteTitleValue
                    /\ n.content = editorValue
      stored == IF indexedDB THEN StoreGetAll(idb') ELSE GetNotesFallback(localStorage')
  IN \/ /\ timers' # <<>>
        /\ currentNoteId' = currentNoteId
        /\ noteTitleValue' = noteTitleValue
        /\ editorValue' = editorValue
     \/ \E i \in 1..Len(pending') : pending'[i].kind = "save" /\ Carries(pending'[i].note)
     \/ \E i \in 1..Len(stored) : Carries(stored[i])

\* C19: an edit to the open note A is not lost by what follows within the
\* debounce window: while the edit awaits its save, every step other than a
\* further input event that leaves A in the list and lets no store operation
\* fail leaves the edit on its way to the store, so that the store ends up
\* holding A with the edited title and content
C19_EditSaved ==
  [][(/\ EditPending
      /\ ~NewEdit
      /\ failures' = 0
      /\ currentNoteId \in Ids(notes')) => EditHeld]_vars

\* C20: the displayed list is consistent with the search field: once the
\* listeners are registered, the displayed entries are exactly the in-memory
\* notes matching the text in the search field (all notes when it is empty)
C20_ListMatchesSearch ==
  ready => ShownIds(displayed) = MatchingIds(notes, searchValue)

====
